---- MODULE Spec2Model ----
(***************************************************************************)
(* A model of the erth-showroom API: a FastAPI application that proxies    *)
(* CRUD and search requests to an Airtable base (src/main.py,              *)
(* src/routers/airtable.py, src/routers/orders.py, src/dependencies.py,    *)
(* src/config.py, src/utility.py).                                         *)
(*                                                                         *)
(* Text is modelled as a sequence of one-character strings, so that        *)
(* quoting, escaping and joining are computed and can be compared.         *)
(* A Python dict is a sequence of <<key, value>> pairs in insertion order. *)
(***************************************************************************)
EXTENDS Integers, Sequences, FiniteSets, TLC

\* ------------------------------------------------------------------ bounds
\* Largest number of entries of a filter map drawn as an input.
MaxFilters == 2
\* Largest number of re-sent HTTP requests the client's retry strategy makes
\* (urllib3's Retry total; the library default is larger).
MaxRetries == 2
\* Largest number of order records one list query returns.
MaxOrders == 1
\* Number of requests served concurrently by the worker thread pool.
MaxThreads == 2
\* Largest number of record ids in a link field of an order.
MaxLinks == 2

\* ------------------------------------------------------------------ text
RECURSIVE Join(_, _)
\* sep.join(parts)
Join(parts, sep) ==
    IF Len(parts) = 0 THEN <<>>
    ELSE IF Len(parts) = 1 THEN parts[1]
    ELSE parts[1] \o sep \o Join(Tail(parts), sep)

RECURSIVE Replace(_, _, _)
\* s.replace(ch, by) for a one-character ch
Replace(s, ch, by) ==
    IF Len(s) = 0 THEN <<>>
    ELSE (IF Head(s) = ch THEN by ELSE <<Head(s)>>) \o Replace(Tail(s), ch, by)

Digit(d) == <<"0", "1", "2", "3", "4", "5", "6", "7", "8", "9">>[d + 1]

RECURSIVE NatStr(_)
NatStr(n) == IF n < 10 THEN <<Digit(n)>> ELSE NatStr(n \div 10) \o <<Digit(n % 10)>>

\* str(n) for a Python int
IntStr(n) == IF n < 0 THEN <<"-">> \o NatStr(-n) ELSE NatStr(n)

COMMA_SP == <<",", " ">>
QUOTE == "'"
ESCAPED_QUOTE == <<"\\", "'">>

\* ------------------------------------------------------------------ values
\* A JSON value after parsing, tagged with its Python type.  A float is held
\* in tenths (15 is 1.5); a list holds strings.
BoolV(x)  == [t |-> "bool",  b |-> x,     n |-> 0, s |-> <<>>, l |-> <<>>]
IntV(x)   == [t |-> "int",   b |-> FALSE, n |-> x, s |-> <<>>, l |-> <<>>]
FloatV(x) == [t |-> "float", b |-> FALSE, n |-> x, s |-> <<>>, l |-> <<>>]
StrV(x)   == [t |-> "str",   b |-> FALSE, n |-> 0, s |-> x,    l |-> <<>>]
ListV(x)  == [t |-> "list",  b |-> FALSE, n |-> 0, s |-> <<>>, l |-> x]
NoneV     == [t |-> "NoneType", b |-> FALSE, n |-> 0, s |-> <<>>, l |-> <<>>]

\* isinstance(v, bool)
IsBool(v) == v.t = "bool"
\* isinstance(v, (int, float)): bool is a subclass of int
IsNumber(v) == v.t \in {"int", "float", "bool"}
\* isinstance(v, str)
IsStr(v) == v.t = "str"
\* isinstance(v, list)
IsList(v) == v.t = "list"

\* Python truthiness: bool(v)
Truthy(v) ==
    CASE v.t = "bool" -> v.b
      [] v.t = "int" -> v.n # 0
      [] v.t = "float" -> v.n # 0
      [] v.t = "str" -> Len(v.s) > 0
      [] v.t = "list" -> Len(v.l) > 0
      [] OTHER -> FALSE

\* repr() of a str without quotes or backslashes in it
StrRepr(s) == <<QUOTE>> \o s \o <<QUOTE>>

\* str(v), as an f-string's {v} renders it
PyStr(v) ==
    CASE v.t = "bool" -> IF v.b THEN <<"T", "r", "u", "e">> ELSE <<"F", "a", "l", "s", "e">>
      [] v.t = "int" -> IntStr(v.n)
      [] v.t = "float" ->
           (IF v.n < 0 THEN <<"-">> ELSE <<>>)
           \o NatStr((IF v.n < 0 THEN -v.n ELSE v.n) \div 10)
           \o <<".">> \o <<Digit((IF v.n < 0 THEN -v.n ELSE v.n) % 10)>>
      [] v.t = "str" -> v.s
      [] v.t = "list" ->
           <<"[">> \o Join([i \in 1..Len(v.l) |-> StrRepr(v.l[i])], COMMA_SP) \o <<"]">>
      [] OTHER -> <<"N", "o", "n", "e">>

\* ------------------------------------------------------------------ exceptions
NoExc == [kind |-> "none", key |-> <<>>, typ |-> ""]
\* ValueError(f"Unsupported value type for field '{key}': {type(value)}")
ValueError(key, value) == [kind |-> "ValueError", key |-> key, typ |-> value.t]
\* formula_parts[0] on an empty list
IndexError == [kind |-> "IndexError", key |-> <<>>, typ |-> ""]
\* HTTPException(status_code=500, detail="Airtable Configuration Error: ...")
HTTPException == [kind |-> "HTTPException", key |-> <<>>, typ |-> ""]
\* requests.exceptions.HTTPError raised by the client
HTTPError == [kind |-> "HTTPError", key |-> <<>>, typ |-> ""]
\* pydantic's ValidationError raised by Settings() when a variable is missing
ValidationError == [kind |-> "ValidationError", key |-> <<>>, typ |-> ""]

\* ------------------------------------------------------------------ filter formulas
\* f"{{{key}}}": the field reference, the key inside literal curly braces
FieldRef(key) == <<"{">> \o key \o <<"}">>

EQ == <<" ", "=", " ">>
NOT_OPEN == <<"N", "O", "T", "(">>
AND_OPEN == <<"A", "N", "D", "(">>
OR_OPEN == <<"O", "R", "(">>
CLOSE == <<")">>

\* The string branch of both compilers.
QuotedEq(key, value) ==
    LET safe_value == Replace(value.s, QUOTE, ESCAPED_QUOTE)
    IN  FieldRef(key) \o EQ \o <<QUOTE>> \o safe_value \o <<QUOTE>>

\* The numeric rule tried before the boolean one (isinstance(True, int) holds).
NumericFirstPart(key, value) ==
    IF IsNumber(value) THEN [exc |-> NoExc, part |-> FieldRef(key) \o EQ \o PyStr(value)]
    ELSE IF IsStr(value) THEN [exc |-> NoExc, part |-> QuotedEq(key, value)]
    ELSE [exc |-> ValueError(key, value), part |-> <<>>]

\* A value of any other type rendered as quoted text instead of refused.
LenientPart(key, value) ==
    IF IsBool(value) THEN
        [exc |-> NoExc,
         part |-> IF value.b THEN FieldRef(key) ELSE NOT_OPEN \o FieldRef(key) \o CLOSE]
    ELSE IF IsNumber(value) THEN
        [exc |-> NoExc, part |-> FieldRef(key) \o EQ \o PyStr(value)]
    ELSE IF IsStr(value) THEN
        [exc |-> NoExc, part |-> QuotedEq(key, value)]
    ELSE [exc |-> NoExc, part |-> FieldRef(key) \o EQ \o <<QUOTE>> \o PyStr(value) \o <<QUOTE>>]

\* The loop body of search_airtable_records: one entry's predicate, or raise.
SearchAllPart(key, value) ==
    IF IsBool(value) THEN
        [exc |-> NoExc,
         part |-> IF value.b THEN FieldRef(key) ELSE NOT_OPEN \o FieldRef(key) \o CLOSE]
    ELSE IF IsNumber(value) THEN
        [exc |-> NoExc, part |-> FieldRef(key) \o EQ \o PyStr(value)]
    ELSE IF IsStr(value) THEN
        [exc |-> NoExc, part |-> QuotedEq(key, value)]
    ELSE [exc |-> ValueError(key, value), part |-> <<>>]

\* The loop body of get_filtered_orders_list.
OrdersListPart(key, value) ==
    IF IsBool(value) THEN
        [exc |-> NoExc,
         part |-> IF value.b THEN FieldRef(key) ELSE NOT_OPEN \o FieldRef(key) \o CLOSE]
    ELSE IF IsNumber(value) THEN
        [exc |-> NoExc, part |-> FieldRef(key) \o EQ \o PyStr(value)]
    ELSE IF IsStr(value) THEN
        [exc |-> NoExc, part |-> QuotedEq(key, value)]
    ELSE [exc |-> ValueError(key, value), part |-> <<>>]

RECURSIVE SearchAllParts(_)
\* The loop of search_airtable_records; the first offending entry raises.
SearchAllParts(search_fields) ==
    IF Len(search_fields) = 0 THEN [exc |-> NoExc, parts |-> <<>>]
    ELSE LET p == SearchAllPart(Head(search_fields)[1], Head(search_fields)[2])
         IN  IF p.exc # NoExc THEN [exc |-> p.exc, parts |-> <<>>]
             ELSE LET rest == SearchAllParts(Tail(search_fields))
                  IN  IF rest.exc # NoExc THEN rest
                      ELSE [exc |-> NoExc, parts |-> <<p.part>> \o rest.parts]

RECURSIVE OrdersListParts(_)
\* The loop of get_filtered_orders_list.
OrdersListParts(filters) ==
    IF Len(filters) = 0 THEN [exc |-> NoExc, parts |-> <<>>]
    ELSE LET p == OrdersListPart(Head(filters)[1], Head(filters)[2])
         IN  IF p.exc # NoExc THEN [exc |-> p.exc, parts |-> <<>>]
             ELSE LET rest == OrdersListParts(Tail(filters))
                  IN  IF rest.exc # NoExc THEN rest
                      ELSE [exc |-> NoExc, parts |-> <<p.part>> \o rest.parts]

\* A compiled formula: exc is the exception raised while building it, none says
\* the formula is None, text is the formula otherwise.
Raised(e) == [exc |-> e, none |-> FALSE, text |-> <<>>]
NoFormula == [exc |-> NoExc, none |-> TRUE, text |-> <<>>]
Formula(text) == [exc |-> NoExc, none |-> FALSE, text |-> text]

\* Parts joined in reverse order.
CombineReversed(formula_parts) ==
    IF Len(formula_parts) > 1
    THEN Formula(AND_OPEN
                 \o Join([i \in 1..Len(formula_parts) |->
                            formula_parts[Len(formula_parts) + 1 - i]], COMMA_SP)
                 \o CLOSE)
    ELSE IF Len(formula_parts) = 1 THEN Formula(formula_parts[1])
    ELSE Raised(IndexError)

\* "Combine parts into final formula" of search_airtable_records: with no part,
\* formula_parts[0] raises IndexError.
SearchAllCombine(formula_parts) ==
    IF Len(formula_parts) > 1
    THEN Formula(AND_OPEN \o Join(formula_parts, COMMA_SP) \o CLOSE)
    ELSE IF Len(formula_parts) = 1 THEN Formula(formula_parts[1])
    ELSE Raised(IndexError)

\* "Combine parts into final formula" of get_filtered_orders_list: None with
\* no part.
OrdersListCombine(formula_parts) ==
    IF Len(formula_parts) > 0
    THEN IF Len(formula_parts) > 1
         THEN Formula(AND_OPEN \o Join(formula_parts, COMMA_SP) \o CLOSE)
         ELSE Formula(formula_parts[1])
    ELSE NoFormula

\* The formula search_airtable_records builds from the request body.
SearchAllFormula(search_fields) ==
    LET r == SearchAllParts(search_fields)
    IN  IF r.exc # NoExc THEN Raised(r.exc) ELSE SearchAllCombine(r.parts)

\* The formula get_filtered_orders_list builds from the request body.
OrdersListFormula(filters) ==
    LET r == OrdersListParts(filters)
    IN  IF r.exc # NoExc THEN Raised(r.exc) ELSE OrdersListCombine(r.parts)

\* The formula search_airtable_record_route builds: every value quoted as
\* str(value) without escaping, always wrapped in AND(...).
SearchFirstFormula(search_fields) ==
    LET formula_parts ==
            [i \in 1..Len(search_fields) |->
                FieldRef(search_fields[i][1]) \o EQ
                \o <<QUOTE>> \o PyStr(search_fields[i][2]) \o <<QUOTE>>]
    IN  Formula(AND_OPEN \o Join(formula_parts, COMMA_SP) \o CLOSE)

\* ------------------------------------------------------------------ records
ORDER_TABLE_NAME == <<"O", "R", "D", "E", "R", "S">>
CUSTOMER_TABLE_NAME == <<"C", "U", "S", "T", "O", "M", "E", "R", "S">>
GARMENT_TABLE_NAME == <<"G", "A", "R", "M", "E", "N", "T", "S">>
ORDER_ID_FIELD == <<"O", "r", "d", "e", "r", "I", "D">>

KeyCustomerID == <<"C", "u", "s", "t", "o", "m", "e", "r", "I", "D">>
KeyGarments == <<"G", "A", "R", "M", "E", "N", "T", "S">>
KeyStatus == <<"S", "t", "a", "t", "u", "s">>

\* A record of the backing store.
Rec(id, fields) == [id |-> id, createdTime |-> "2025-01-01T00:00:00.000Z", fields |-> fields]
NoRec == [id |-> <<>>, createdTime |-> "", fields |-> <<>>]

IdC1 == <<"c", "1">>
IdG1 == <<"g", "1">>
IdG2 == <<"g", "2">>
IdR1 == <<"r", "1">>
Open == StrV(<<"O", "p", "e", "n">>)

RecR1 == Rec(IdR1, << <<KeyStatus, Open>> >>)
RecC1 == Rec(IdC1, << <<KeyStatus, StrV(<<"x">>)>> >>)
RecG1 == Rec(IdG1, << <<KeyStatus, StrV(<<"x">>)>> >>)
RecG2 == Rec(IdG2, << <<KeyStatus, StrV(<<>>)>> >>)

\* Order records the store may hold: both links set, no link, a link field
\* that is not a list.
OrderFull == Rec(<<"o", "1">>, << <<KeyCustomerID, ListV(<<IdC1>>)>>,
                                 <<KeyGarments, ListV(<<IdG1, IdG2>>)>>,
                                 <<KeyStatus, Open>> >>)
OrderBare == Rec(<<"o", "2">>, << <<KeyStatus, Open>> >>)
OrderOdd == Rec(<<"o", "3">>, << <<KeyStatus, Open>>,
                                <<KeyCustomerID, StrV(IdC1)>>,
                                <<KeyGarments, ListV(<<>>)>> >>)
OrderRecords == {OrderFull, OrderBare, OrderOdd}

\* dict.get / membership on a dict held as a sequence of pairs
HasKey(d, k) == \E i \in 1..Len(d) : d[i][1] = k
Lookup(d, k) == d[CHOOSE i \in 1..Len(d) : d[i][1] = k][2]
\* the dict without key k
Without(d, k) == SelectSeq(d, LAMBDA kv : kv[1] # k)

\* ------------------------------------------------------------------ backing-store client
\* AirtableApi(settings.AIRTABLE_API_KEY, retry_strategy=True)
RETRY_STRATEGY == TRUE

\* What one HTTP request can come back with: a 2xx, a 429, another failure.
HttpStatuses == {"ok", "429", "err"}

\* The HTTP requests one client call sends, as the sequence of their outcomes.
\* Without a retry strategy there is one; with it a 429 is re-sent, after a
\* backoff, until the retries are used up.
HttpRuns(retry) ==
    LET most == IF retry THEN 1 + MaxRetries ELSE 1
    IN  {r \in UNION {[1..n -> HttpStatuses] : n \in 1..most} :
            /\ \A i \in 1..(Len(r) - 1) : r[i] = "429"
            /\ r[Len(r)] = "429" => Len(r) = most}

\* requests' RetryError, raised when the retries are used up
RetryError == [kind |-> "RetryError", key |-> <<>>, typ |-> ""]

\* The argument of a client call.
Arg(formula, id, payload) == [formula |-> formula, id |-> id, payload |-> payload]
NoArg == Arg(NoFormula, <<>>, <<>>)

\* What the store may answer to a successful call: its query language is not
\* modelled, so any answer of the right shape.
Answers(table, op) ==
    CASE op = "all" /\ table = GARMENT_TABLE_NAME -> {<<>>, <<RecG1>>, <<RecG1, RecG2>>}
      [] op = "all" /\ table = ORDER_TABLE_NAME ->
           UNION {[1..n -> OrderRecords] : n \in 0..MaxOrders}
      [] op = "first" /\ table = ORDER_TABLE_NAME -> {<<>>} \cup {<<o>> : o \in OrderRecords}
      [] op \in {"first", "get"} /\ table = CUSTOMER_TABLE_NAME -> {<<>>, <<RecC1>>}
      [] op \in {"all", "first", "get"}
           /\ table \notin {GARMENT_TABLE_NAME, ORDER_TABLE_NAME, CUSTOMER_TABLE_NAME} ->
           IF op = "all" THEN {<<>>, <<RecR1>>, <<RecR1, RecC1>>} ELSE {<<>>, <<RecR1>>}
      [] op \in {"create", "update", "delete"} -> {<<RecR1>>}
      [] OTHER -> {<<>>}

\* One call of a Table method.  An outcome holds the log entry of the call (the
\* table, the method, the argument, the HTTP requests sent and what the method
\* returned), the exception raised, whether the error response carries a JSON
\* body, and the answer.
CallWith(answers, table, op, arg) ==
    LET Entry(run, d) ==
            [table |-> table, op |-> op, arg |-> arg, sends |-> run, answer |-> d]
    IN  UNION {
          IF run[Len(run)] = "ok"
          THEN {[exc |-> NoExc, json |-> FALSE, entry |-> Entry(run, d), data |-> d] :
                   d \in answers}
          ELSE IF run[Len(run)] = "429" /\ RETRY_STRATEGY
          THEN {[exc |-> RetryError, json |-> FALSE, entry |-> Entry(run, <<>>), data |-> <<>>]}
          ELSE {[exc |-> HTTPError, json |-> j, entry |-> Entry(run, <<>>), data |-> <<>>] :
                   j \in BOOLEAN}
          : run \in HttpRuns(RETRY_STRATEGY)}

Call(table, op, arg) == CallWith(Answers(table, op), table, op, arg)

\* ------------------------------------------------------------------ fetch_order_details
\* The dicts fetch_order_details touches live in a small heap, so that a copy
\* and an alias differ: ref 1 is order_record["fields"].
\* The same dict object instead of a copy.
DictAlias(heap, ref) == [heap |-> heap, ref |-> ref]
\* order_record["fields"].copy()
DictCopy(heap, ref) == [heap |-> heap @@ (2 :> heap[ref]), ref |-> 2]

\* d.pop(key, None) on the dict at ref
Pop(heap, ref, key) ==
    [heap |-> [heap EXCEPT ![ref] = Without(heap[ref], key)],
     val |-> IF HasKey(heap[ref], key) THEN Lookup(heap[ref], key) ELSE NoneV]

\* Lines 27-39: the output order and the two popped values.
StripLinks(order_record) ==
    LET c == DictCopy((1 :> order_record.fields), 1)
        p1 == Pop(c.heap, c.ref, KeyCustomerID)
        p2 == Pop(p1.heap, c.ref, KeyGarments)
    IN  [order |-> [id |-> order_record.id,
                    createdTime |-> order_record.createdTime,
                    fields |-> p2.heap[c.ref]],
         customer_ids |-> p1.val,
         garment_ids |-> p2.val,
         input_fields |-> p2.heap[1]]

\* The customer resolved through the last linked id instead of the first.
CustomerStepLast(customer_ids) ==
    IF Truthy(customer_ids) /\ IsList(customer_ids)
    THEN {[exc |-> HTTPException, json |-> FALSE, log |-> <<>>, customer |-> <<>>]}
         \cup {[exc |-> c.exc, json |-> c.json, log |-> <<c.entry>>, customer |-> c.data] :
                 c \in Call(CUSTOMER_TABLE_NAME, "get",
                            Arg(NoFormula, customer_ids.l[Len(customer_ids.l)], <<>>))}
    ELSE {[exc |-> NoExc, json |-> FALSE, log |-> <<>>, customer |-> <<>>]}

\* Lines 41-50: the outcomes of resolving the customer.
CustomerStep(customer_ids) ==
    IF Truthy(customer_ids) /\ IsList(customer_ids)
    THEN {[exc |-> HTTPException, json |-> FALSE, log |-> <<>>, customer |-> <<>>]}
         \cup {[exc |-> c.exc, json |-> c.json, log |-> <<c.entry>>, customer |-> c.data] :
                 c \in Call(CUSTOMER_TABLE_NAME, "get", Arg(NoFormula, customer_ids.l[1], <<>>))}
    ELSE {[exc |-> NoExc, json |-> FALSE, log |-> <<>>, customer |-> <<>>]}

\* The predicate over the first garment id alone.
GarmentFormulaFirst(garment_ids) ==
    Formula(OR_OPEN
            \o <<"R", "E", "C", "O", "R", "D", "_", "I", "D", "(", ")", "=">>
            \o <<QUOTE>> \o garment_ids.l[1] \o <<QUOTE>> \o CLOSE)

\* Lines 59-60: OR(RECORD_ID()='id1', ...)
GarmentFormula(garment_ids) ==
    LET formula_parts ==
            [i \in 1..Len(garment_ids.l) |->
                <<"R", "E", "C", "O", "R", "D", "_", "I", "D", "(", ")", "=">>
                \o <<QUOTE>> \o garment_ids.l[i] \o <<QUOTE>>]
    IN  Formula(OR_OPEN \o Join(formula_parts, COMMA_SP) \o CLOSE)

\* Lines 52-63: the outcomes of resolving the garments.
GarmentStep(garment_ids) ==
    IF Truthy(garment_ids) /\ IsList(garment_ids)
    THEN {[exc |-> HTTPException, json |-> FALSE, log |-> <<>>, garments |-> <<>>]}
         \cup {[exc |-> c.exc, json |-> c.json, log |-> <<c.entry>>, garments |-> c.data] :
                 c \in Call(GARMENT_TABLE_NAME, "all",
                            Arg(GarmentFormula(garment_ids), <<>>, <<>>))}
    ELSE {[exc |-> NoExc, json |-> FALSE, log |-> <<>>, garments |-> <<>>]}

\* fetch_order_details: every outcome it can have on order_record.  final_data
\* is meaningful when exc is NoExc; input_fields is order_record["fields"] as
\* the call leaves it.
FetchOrderDetails(order_record) ==
    LET s == StripLinks(order_record)
        Out(exc, json, log, customer, garments) ==
            [exc |-> exc, json |-> json, log |-> log,
             final_data |-> [order |-> s.order, customer |-> customer, garments |-> garments],
             input_fields |-> s.input_fields]
    IN  UNION {
          IF c.exc # NoExc
          THEN {Out(c.exc, c.json, c.log, <<>>, <<>>)}
          ELSE {Out(g.exc, g.json, c.log \o g.log, c.customer, g.garments) :
                  g \in GarmentStep(s.garment_ids)}
          : c \in CustomerStep(s.customer_ids)}

\* ------------------------------------------------------------------ response envelope
\* The data member of an envelope, tagged with what it holds.
Data(kind, recs, views, exc) == [kind |-> kind, recs |-> recs, views |-> views, exc |-> exc]
DataNone == Data("none", <<>>, <<>>, NoExc)
DataRecords(recs) == Data("records", recs, <<>>, NoExc)
DataRecord(rec) == Data("record", <<rec>>, <<>>, NoExc)
DataDeleted(rec) == Data("deleted_record_id", <<rec>>, <<>>, NoExc)
DataUpsert(result) == Data("upsert_result", result, <<>>, NoExc)
DataView(view) == Data("view", <<>>, <<view>>, NoExc)
DataViews(views) == Data("views", <<>>, views, NoExc)
\* e.response.json()
DataUpstream == Data("upstream_json", <<>>, <<>>, HTTPError)
\* {"message": str(e)}
DataMessage == Data("message", <<>>, <<>>, HTTPError)
\* {"error": str(e)}
DataError(exc) == Data("error", <<>>, <<>>, exc)

\* ApiResponse(status=..., message=..., data=..., count=...)
ApiResponse(status, message, data, count) ==
    [status |-> status, message |-> message, data |-> data, count |-> count]
NoResponse == ApiResponse("", "", DataNone, 0)

\* What a handler run leaves: the response it returns and the client calls made.
Result(response, log) == [response |-> response, log |-> log]

\* The two except clauses every handler ends with.
Caught(message, exc, json) ==
    IF exc = HTTPError
    THEN ApiResponse("error", message, IF json THEN DataUpstream ELSE DataMessage, 0)
    ELSE ApiResponse("error", "Unexpected server error", DataError(exc), 0)

\* get_airtable_table_utility re-raises any exception of api.table(...) as
\* HTTPException(500); inside a handler's try that ends in the second except
\* clause, before any client call.
TableFailed(message) == Result(Caught(message, HTTPException, FALSE), <<>>)

\* ------------------------------------------------------------------ handlers of routers/airtable.py
\* GET /airtable/{table_name}/records
ReadAirtableRecords(r) ==
    {TableFailed("Airtable Read Error")} \cup
    {IF c.exc = NoExc
     THEN Result(ApiResponse("success", "Fetched {len(records)} records from {table_name}",
                             DataRecords(c.data), Len(c.data)), <<c.entry>>)
     ELSE Result(Caught("Airtable Read Error", c.exc, c.json), <<c.entry>>)
     : c \in Call(r.table_name, "all", NoArg)}

\* GET /airtable/{table_name}/records/{record_id}
GetAirtableRecordById(r) ==
    {TableFailed("Airtable Get by ID Error")} \cup
    {IF c.exc # NoExc
     THEN Result(Caught("Airtable Get by ID Error", c.exc, c.json), <<c.entry>>)
     ELSE IF Len(c.data) = 0
     THEN Result(ApiResponse("error", "Record not found", DataNone, 0), <<c.entry>>)
     ELSE Result(ApiResponse("success", "Record fetched", DataRecord(c.data[1]), 1),
                 <<c.entry>>)
     : c \in Call(r.table_name, "get", Arg(NoFormula, r.record_id, <<>>))}

\* POST /airtable/{table_name}/records
CreateAirtableRecord(r) ==
    {TableFailed("Airtable Create Error")} \cup
    {IF c.exc # NoExc
     THEN Result(Caught("Airtable Create Error", c.exc, c.json), <<c.entry>>)
     ELSE Result(ApiResponse("success", "Record created", DataRecord(c.data[1]), 1),
                 <<c.entry>>)
     : c \in Call(r.table_name, "create", Arg(NoFormula, <<>>, <<r.body.fields>>))}

\* An update that is sent again when it fails.
UpdateRetrying(r) ==
    {TableFailed("Airtable Update Error")} \cup
    UNION {
      IF c.exc = NoExc
      THEN {Result(ApiResponse("success", "Record updated", DataRecord(c.data[1]), 1),
                   <<c.entry>>)}
      ELSE {IF d.exc # NoExc
            THEN Result(Caught("Airtable Update Error", d.exc, d.json), <<c.entry, d.entry>>)
            ELSE Result(ApiResponse("success", "Record updated", DataRecord(d.data[1]), 1),
                        <<c.entry, d.entry>>)
            : d \in Call(r.table_name, "update", Arg(NoFormula, r.record_id, <<r.body.fields>>))}
      : c \in Call(r.table_name, "update", Arg(NoFormula, r.record_id, <<r.body.fields>>))}

\* PATCH /airtable/{table_name}/records/{record_id}
UpdateAirtableRecord(r) ==
    {TableFailed("Airtable Update Error")} \cup
    {IF c.exc # NoExc
     THEN Result(Caught("Airtable Update Error", c.exc, c.json), <<c.entry>>)
     ELSE Result(ApiResponse("success", "Record updated", DataRecord(c.data[1]), 1),
                 <<c.entry>>)
     : c \in Call(r.table_name, "update", Arg(NoFormula, r.record_id, <<r.body.fields>>))}

\* DELETE /airtable/{table_name}/records/{record_id}
DeleteAirtableRecord(r) ==
    {TableFailed("Airtable Delete Error")} \cup
    {IF c.exc # NoExc
     THEN Result(Caught("Airtable Delete Error", c.exc, c.json), <<c.entry>>)
     ELSE Result(ApiResponse("success", "Record deleted", DataDeleted(c.data[1]), 1),
                 <<c.entry>>)
     : c \in Call(r.table_name, "delete", Arg(NoFormula, r.record_id, <<>>))}

\* POST /airtable/{table_name}/search
SearchAirtableRecordRoute(r) ==
    LET formula == SearchFirstFormula(r.body.fields)
    IN  {TableFailed("Airtable Search Error")} \cup
        {IF c.exc # NoExc
         THEN Result(Caught("Airtable Search Error", c.exc, c.json), <<c.entry>>)
         ELSE IF Len(c.data) = 0
         THEN Result(ApiResponse("error", "Record not found", DataNone, 0), <<c.entry>>)
         ELSE Result(ApiResponse("success", "Record found", DataRecord(c.data[1]), 1),
                     <<c.entry>>)
         : c \in Call(r.table_name, "first", Arg(formula, <<>>, <<>>))}

\* POST /airtable/{table_name}/search-all
SearchAirtableRecords(r) ==
    LET formula == SearchAllFormula(r.body.fields)
    IN  IF formula.exc # NoExc
        THEN {Result(Caught("Airtable Search-All Error", formula.exc, FALSE), <<>>)}
        ELSE {TableFailed("Airtable Search-All Error")} \cup
             {IF c.exc # NoExc
              THEN Result(Caught("Airtable Search-All Error", c.exc, c.json), <<c.entry>>)
              ELSE Result(ApiResponse("success", "Found {len(records)} matching records",
                                      DataRecords(c.data), Len(c.data)), <<c.entry>>)
              : c \in Call(r.table_name, "all", Arg(formula, <<>>, <<>>))}

\* Lines 342-347: the write payloads, each with its id when the request gave one.
RecordsToUpsert(records) ==
    [i \in 1..Len(records) |->
        IF Len(records[i].id) > 0
        THEN [has_id |-> TRUE, id |-> records[i].id, fields |-> records[i].fields]
        ELSE [has_id |-> FALSE, id |-> <<>>, fields |-> records[i].fields]]

\* The keys of the dict batch_upsert returns.
UpsertResultKeys == {"createdRecords", "updatedRecords", "records"}

\* What batch_upsert may answer for n payloads: how many it created, the rest
\* updated.
UpsertAnswers(n) == {<<k, n - k, n>> : k \in 0..n}

\* table.batch_upsert(records, key_fields): with no payload no request is sent.
UpsertCall(table, payloads, key_fields) ==
    IF Len(payloads) = 0
    THEN {[exc |-> NoExc, json |-> FALSE,
           entry |-> [table |-> table, op |-> "batch_upsert",
                      arg |-> Arg(NoFormula, key_fields, payloads), sends |-> <<>>,
                      answer |-> <<0, 0, 0>>],
           data |-> <<0, 0, 0>>]}
    ELSE CallWith(UpsertAnswers(Len(payloads)), table, "batch_upsert",
                  Arg(NoFormula, key_fields, payloads))

\* POST /airtable/{table_name}/upsert
UpsertAirtableRecords(r) ==
    {TableFailed("Airtable Upsert Error")} \cup
    {IF c.exc # NoExc
     THEN Result(Caught("Airtable Upsert Error", c.exc, c.json), <<c.entry>>)
     ELSE Result(ApiResponse("success", "Upserted {len(upserted_records)} records.",
                             DataUpsert(c.data), Cardinality(UpsertResultKeys)),
                 <<c.entry>>)
     : c \in UpsertCall(r.table_name, RecordsToUpsert(r.body.records), r.body.key_fields)}

\* ------------------------------------------------------------------ handlers of routers/orders.py
\* GET /airtable/order_details/{order_id_value}
GetDetailedOrderByOrderId(r) ==
    LET safe_value == Replace(r.record_id, QUOTE, ESCAPED_QUOTE)
        formula == Formula(FieldRef(ORDER_ID_FIELD) \o EQ
                           \o <<QUOTE>> \o safe_value \o <<QUOTE>>)
    IN  {TableFailed("Airtable Detail Fetch Error")} \cup
        UNION {
          IF c.exc # NoExc
          THEN {Result(Caught("Airtable Detail Fetch Error", c.exc, c.json), <<c.entry>>)}
          ELSE IF Len(c.data) = 0
          THEN {Result(ApiResponse("error", "Order not found with {ORDER_ID_FIELD} = ...",
                                   DataNone, 0), <<c.entry>>)}
          ELSE {IF d.exc # NoExc
                THEN Result(Caught("Airtable Detail Fetch Error", d.exc, d.json),
                            <<c.entry>> \o d.log)
                ELSE Result(ApiResponse("success", "Order {order_id_value} found ...",
                                        DataView(d.final_data), 1), <<c.entry>> \o d.log)
                : d \in FetchOrderDetails(c.data[1])}
          : c \in Call(ORDER_TABLE_NAME, "first", Arg(formula, <<>>, <<>>))}

\* ------------------------------------------------------------------ state
VARIABLES
    cin,               \* the filter map handed to the formula builders
    cout,              \* per endpoint: the parts and the formula it built from cin
    env_ok,            \* AIRTABLE_API_KEY and AIRTABLE_BASE_ID are set
    settings_cache,    \* lru_cache of get_settings: 0 when empty, else the instance
    api_cache,         \* lru_cache of get_airtable_api: 0 when empty, else the instance
    settings_created,  \* number of Settings objects constructed
    api_created,       \* number of AirtableApi objects constructed
    req,               \* per worker thread: the request it serves
    din,               \* the order record handed to fetch_order_details
    dout               \* what fetch_order_details made of din

vars == <<cin, cout, env_ok, settings_cache, api_cache, settings_created, api_created,
          req, din, dout>>

\* ------------------------------------------------------------------ requests
\* A request body: a dict (the fields of a record, or a filter map), and the
\* records and key fields of an upsert.
Body(fields, records, key_fields) ==
    [fields |-> fields, records |-> records, key_fields |-> key_fields]
NoBody == Body(<<>>, <<>>, <<>>)

\* What a handler is called with.
Input(handler, table_name, record_id, body) ==
    [handler |-> handler, table_name |-> table_name, record_id |-> record_id, body |-> body]
NoInput == Input("", <<>>, <<>>, NoBody)

\* A worker thread with no request.
IdleReq ==
    [pc |-> "idle", method |-> "", path |-> <<>>, body |-> NoBody, input |-> NoInput,
     api |-> 0, settings |-> 0, tmp_settings |-> 0, tmp_api |-> 0,
     http |-> 0, exc |-> NoExc, response |-> NoResponse, log |-> <<>>]

\* dout before fetch_order_details has run
NoDenorm ==
    [done |-> FALSE, exc |-> NoExc, log |-> <<>>,
     final_data |-> [order |-> NoRec, customer |-> <<>>, garments |-> <<>>],
     input_fields |-> <<>>]

\* ------------------------------------------------------------------ inputs
KeyA == <<"A">>
KeyB == <<"B">>
KeyName == <<"N", "a", "m", "e">>
FilterKeys == {KeyA, KeyB, KeyName}

OBrien == <<"O", "'", "B">>
FilterValues ==
    {BoolV(TRUE), BoolV(FALSE), IntV(0), IntV(1), IntV(-12), FloatV(15),
     StrV(<<"x">>), StrV(OBrien), StrV(<<"'", "'">>), StrV(<<>>),
     ListV(<<>>), NoneV}

\* Filter maps of at most n entries: keys unique, in insertion order.
FilterMaps(n) ==
    UNION {{f \in [1..k -> FilterKeys \X FilterValues] :
               \A i, j \in 1..k : i # j => f[i][1] # f[j][1]} : k \in 0..n}

Endpoints == {"search", "search-all", "orders_list"}
NotRun == [done |-> FALSE, exc |-> NoExc, parts |-> <<>>, formula |-> NoFormula]

\* ------------------------------------------------------------------ formula builders alone
InitCompile ==
    /\ cin \in FilterMaps(MaxFilters)
    /\ cout = [e \in Endpoints |-> NotRun]
    /\ env_ok = TRUE
    /\ settings_cache = 0
    /\ api_cache = 0
    /\ settings_created = 0
    /\ api_created = 0
    /\ req = [t \in 1..MaxThreads |-> IdleReq]
    /\ din = NoRec
    /\ dout = NoDenorm

\* Lines 259-284 of search_airtable_records applied to cin.
CompileSearchAll ==
    /\ ~cout["search-all"].done
    /\ cout' = [cout EXCEPT !["search-all"] =
                  [done |-> TRUE, exc |-> SearchAllParts(cin).exc,
                   parts |-> SearchAllParts(cin).parts,
                   formula |-> SearchAllFormula(cin)]]
    /\ UNCHANGED <<cin, env_ok, settings_cache, api_cache, settings_created, api_created,
                   req, din, dout>>

\* Lines 157-183 of get_filtered_orders_list applied to cin.
CompileOrdersList ==
    /\ ~cout["orders_list"].done
    /\ cout' = [cout EXCEPT !["orders_list"] =
                  [done |-> TRUE, exc |-> OrdersListParts(cin).exc,
                   parts |-> OrdersListParts(cin).parts,
                   formula |-> OrdersListFormula(cin)]]
    /\ UNCHANGED <<cin, env_ok, settings_cache, api_cache, settings_created, api_created,
                   req, din, dout>>

\* Lines 211-214 of search_airtable_record_route applied to cin.
CompileSearchFirst ==
    /\ ~cout["search"].done
    /\ cout' = [cout EXCEPT !["search"] =
                  [done |-> TRUE, exc |-> NoExc, parts |-> <<>>,
                   formula |-> SearchFirstFormula(cin)]]
    /\ UNCHANGED <<cin, env_ok, settings_cache, api_cache, settings_created, api_created,
                   req, din, dout>>

NextCompile == CompileSearchAll \/ CompileOrdersList \/ CompileSearchFirst

SpecCompile == InitCompile /\ [][NextCompile]_vars

\* ------------------------------------------------------------------ claims on the formula builders
Compilers == {"search-all", "orders_list"}

\* The predicate the value's type selects for one entry.
TypedPredicate(key, v) ==
    CASE v.t = "bool" /\ v.b -> <<"{">> \o key \o <<"}">>
      [] v.t = "bool" /\ ~v.b -> <<"N", "O", "T", "(", "{">> \o key \o <<"}", ")">>
      [] v.t \in {"int", "float"} -> <<"{">> \o key \o <<"}", " ", "=", " ">> \o PyStr(v)
      [] v.t = "str" ->
           <<"{">> \o key \o <<"}", " ", "=", " ", "'">>
           \o Replace(v.s, "'", <<"\\", "'">>) \o <<"'">>

Supported(v) == v.t \in {"bool", "int", "float", "str"}
AllSupported(f) == \A i \in 1..Len(f) : Supported(f[i][2])

\* C7: each entry of a filter map of supported values yields exactly one
\* predicate, the one its value's type selects: the field reference {key} for
\* true, NOT({key}) for false, {key} = <literal> unquoted for a number,
\* {key} = '<value with every ' replaced by \'>' for a string; a boolean never
\* takes the numeric form.
C7_TypedPredicates ==
    \A e \in Compilers :
        (cout[e].done /\ AllSupported(cin)) =>
            /\ cout[e].exc = NoExc
            /\ Len(cout[e].parts) = Len(cin)
            /\ \A i \in 1..Len(cin) :
                   cout[e].parts[i] = TypedPredicate(cin[i][1], cin[i][2])

\* A map holding a boolean, a number and a quoted string has been compiled by
\* both compilers.
C7_Witness ==
    /\ \A e \in Compilers : cout[e].done
    /\ \E i \in 1..Len(cin) : cin[i][2] = BoolV(TRUE)
    /\ \E i \in 1..Len(cin) : cin[i][2] = StrV(OBrien)
    /\ AllSupported(cin)

\* C8: a single entry compiles to its predicate verbatim; two or more compile
\* to AND(p1, ..., pn) with every entry's predicate once, in insertion order.
C8_Combination ==
    \A e \in Compilers :
        (cout[e].done /\ AllSupported(cin) /\ Len(cin) >= 1) =>
            LET p == [i \in 1..Len(cin) |-> TypedPredicate(cin[i][1], cin[i][2])]
            IN  /\ cout[e].formula.exc = NoExc
                /\ ~cout[e].formula.none
                /\ Len(cin) = 1 => cout[e].formula.text = p[1]
                /\ Len(cin) >= 2 =>
                       cout[e].formula.text
                           = <<"A", "N", "D", "(">> \o Join(p, <<",", " ">>) \o <<")">>

\* Both compilers have compiled {B: 1, A: 0}, whose insertion order is not
\* the alphabetical one.
C8_Witness ==
    /\ \A e \in Compilers : cout[e].done
    /\ cin = << <<KeyB, IntV(1)>>, <<KeyA, IntV(0)>> >>

\* ------------------------------------------------------------------ dependency resolution
\* FastAPI resolves a handler's Depends in parameter order, api then settings,
\* each call in a worker thread.  functools.lru_cache looks the key up, calls
\* the function on a miss without holding a lock, and stores the result unless
\* another thread stored one meanwhile; the caller gets its own result.
Step(t, r) == req' = [req EXCEPT ![t] = r]

\* Depends(get_airtable_api): the cache lookup of the lru_cache wrapper.
DepApiLookup(t) ==
    /\ req[t].pc = "dep_api"
    /\ IF api_cache # 0
       THEN Step(t, [req[t] EXCEPT !.pc = "dep_settings", !.api = api_cache])
       ELSE Step(t, [req[t] EXCEPT !.pc = "api_body"])
    /\ UNCHANGED <<cin, cout, env_ok, settings_cache, api_cache, settings_created,
                   api_created, din, dout>>

\* get_airtable_api line 7: settings = get_settings(), the lookup.
ApiBodyGetSettings(t) ==
    /\ req[t].pc = "api_body"
    /\ IF settings_cache # 0
       THEN Step(t, [req[t] EXCEPT !.pc = "api_construct", !.tmp_settings = settings_cache])
       ELSE Step(t, [req[t] EXCEPT !.pc = "api_settings_construct"])
    /\ UNCHANGED <<cin, cout, env_ok, settings_cache, api_cache, settings_created,
                   api_created, din, dout>>

\* get_settings' body: Settings() reads the environment and raises when a
\* variable is missing; nothing above the dependency catches that.
SettingsConstruct(t) ==
    /\ req[t].pc \in {"api_settings_construct", "settings_construct"}
    /\ IF env_ok
       THEN /\ settings_created' = settings_created + 1
            /\ Step(t, [req[t] EXCEPT
                          !.pc = IF req[t].pc = "settings_construct"
                                 THEN "settings_store" ELSE "api_settings_store",
                          !.tmp_settings = settings_created + 1])
       ELSE /\ settings_created' = settings_created
            /\ Step(t, [req[t] EXCEPT !.pc = "escaped", !.exc = ValidationError,
                                      !.http = 500])
    /\ UNCHANGED <<cin, cout, env_ok, settings_cache, api_cache, api_created, din, dout>>

\* The lru_cache wrapper of get_settings after the body returned.
SettingsStore(t) ==
    /\ req[t].pc \in {"api_settings_store", "settings_store"}
    /\ settings_cache' = IF settings_cache = 0 THEN req[t].tmp_settings ELSE settings_cache
    /\ IF req[t].pc = "settings_store"
       THEN Step(t, [req[t] EXCEPT !.pc = "handler", !.settings = req[t].tmp_settings])
       ELSE Step(t, [req[t] EXCEPT !.pc = "api_construct"])
    /\ UNCHANGED <<cin, cout, env_ok, api_cache, settings_created, api_created, din, dout>>

\* get_airtable_api lines 8-9: AirtableApi(key, retry_strategy=True).
ApiConstruct(t) ==
    /\ req[t].pc = "api_construct"
    /\ api_created' = api_created + 1
    /\ Step(t, [req[t] EXCEPT !.pc = "api_store", !.tmp_api = api_created + 1])
    /\ UNCHANGED <<cin, cout, env_ok, settings_cache, api_cache, settings_created, din, dout>>

\* The lru_cache wrapper of get_airtable_api after the body returned.
ApiStore(t) ==
    /\ req[t].pc = "api_store"
    /\ api_cache' = IF api_cache = 0 THEN req[t].tmp_api ELSE api_cache
    /\ Step(t, [req[t] EXCEPT !.pc = "dep_settings", !.api = req[t].tmp_api])
    /\ UNCHANGED <<cin, cout, env_ok, settings_cache, settings_created, api_created,
                   din, dout>>

\* Depends(get_settings): the cache lookup of the lru_cache wrapper.
DepSettingsLookup(t) ==
    /\ req[t].pc = "dep_settings"
    /\ IF settings_cache # 0
       THEN Step(t, [req[t] EXCEPT !.pc = "handler", !.settings = settings_cache])
       ELSE Step(t, [req[t] EXCEPT !.pc = "settings_construct"])
    /\ UNCHANGED <<cin, cout, env_ok, settings_cache, api_cache, settings_created,
                   api_created, din, dout>>

Resolve(t) ==
    \/ DepApiLookup(t)
    \/ ApiBodyGetSettings(t)
    \/ SettingsConstruct(t)
    \/ SettingsStore(t)
    \/ ApiConstruct(t)
    \/ ApiStore(t)
    \/ DepSettingsLookup(t)

\* ------------------------------------------------------------------ handler runs
\* Thread t's handler returns: the response and the client calls it made.
Finish(t, result) ==
    Step(t, [req[t] EXCEPT !.pc = "done", !.http = 200,
                           !.response = result.response, !.log = result.log])

\* The handler named h runs to its return on thread t with one of its outcomes.
Handle(t, h, outcomes) ==
    /\ req[t].pc = "handler"
    /\ req[t].input.handler = h
    /\ \E o \in outcomes : Finish(t, o)
    /\ UNCHANGED <<cin, cout, env_ok, settings_cache, api_cache, settings_created,
                   api_created, din, dout>>

RECURSIVE DetailLoop(_, _, _, _)
\* Lines 205-215 of get_filtered_orders_list: fetch_order_details for each
\* order in turn, the first exception ending the loop in the except clauses.
DetailLoop(t, order_records, log, orders_with_details) ==
    IF Len(order_records) = 0
    THEN Finish(t, Result(ApiResponse("success",
                                      "Found {len(orders_with_details)} orders ...",
                                      DataViews(orders_with_details),
                                      Len(orders_with_details)), log))
    ELSE \E d \in FetchOrderDetails(Head(order_records)) :
             IF d.exc # NoExc
             THEN Finish(t, Result(Caught("Airtable Orders List Fetch Error", d.exc, d.json),
                                   log \o d.log))
             ELSE DetailLoop(t, Tail(order_records), log \o d.log,
                             orders_with_details \o <<d.final_data>>)

\* POST /airtable/orders_list, run by thread t on r.
GetFilteredOrdersList(t, r) ==
    LET formula == OrdersListFormula(r.body.fields)
    IN  IF formula.exc # NoExc
        THEN Finish(t, Result(Caught("Airtable Orders List Fetch Error", formula.exc, FALSE),
                              <<>>))
        ELSE \/ Finish(t, TableFailed("Airtable Orders List Fetch Error"))
             \/ \E c \in Call(ORDER_TABLE_NAME, "all", Arg(formula, <<>>, <<>>)) :
                    IF c.exc # NoExc
                    THEN Finish(t, Result(Caught("Airtable Orders List Fetch Error",
                                                 c.exc, c.json), <<c.entry>>))
                    ELSE IF Len(c.data) = 0
                    THEN Finish(t, Result(ApiResponse("success",
                                                      "No orders found matching the filters",
                                                      DataViews(<<>>), 0), <<c.entry>>))
                    ELSE DetailLoop(t, c.data, <<c.entry>>, <<>>)

\* The response is sent and the worker thread is free for the next request.
Release(t) ==
    /\ req[t].pc \in {"done", "escaped"}
    /\ Step(t, IdleReq)
    /\ UNCHANGED <<cin, cout, env_ok, settings_cache, api_cache, settings_created,
                   api_created, din, dout>>

RunReadRecords(t) == Handle(t, "read_airtable_records", ReadAirtableRecords(req[t].input))
RunGetRecord(t) == Handle(t, "get_airtable_record_by_id", GetAirtableRecordById(req[t].input))
RunCreate(t) == Handle(t, "create_airtable_record", CreateAirtableRecord(req[t].input))
RunUpdate(t) == Handle(t, "update_airtable_record", UpdateAirtableRecord(req[t].input))
RunDelete(t) == Handle(t, "delete_airtable_record", DeleteAirtableRecord(req[t].input))
RunSearchFirst(t) ==
    Handle(t, "search_airtable_record_route", SearchAirtableRecordRoute(req[t].input))
RunSearchAll(t) == Handle(t, "search_airtable_records", SearchAirtableRecords(req[t].input))
RunUpsert(t) == Handle(t, "upsert_airtable_records", UpsertAirtableRecords(req[t].input))
RunOrderDetails(t) ==
    Handle(t, "get_detailed_order_by_order_id", GetDetailedOrderByOrderId(req[t].input))
RunOrdersList(t) ==
    /\ req[t].pc = "handler"
    /\ req[t].input.handler = "get_filtered_orders_list"
    /\ GetFilteredOrdersList(t, req[t].input)
    /\ UNCHANGED <<cin, cout, env_ok, settings_cache, api_cache, settings_created,
                   api_created, din, dout>>

\* ------------------------------------------------------------------ the handlers, called one at a time
TableT == <<"T">>
FieldsF == << <<KeyStatus, Open>> >>

\* Filter maps sent to the search handlers: empty, one entry of each supported
\* type, two entries out of alphabetical order, an unsupported value first
\* and last.
SmallFilters ==
    {<<>>,
     << <<KeyA, IntV(1)>> >>,
     << <<KeyA, BoolV(FALSE)>> >>,
     << <<KeyName, StrV(OBrien)>> >>,
     << <<KeyB, IntV(1)>>, <<KeyA, StrV(<<"x">>)>> >>,
     << <<KeyA, ListV(<<>>)>>, <<KeyB, IntV(1)>> >>,
     << <<KeyB, IntV(1)>>, <<KeyA, NoneV>> >>}

\* RecordSchema(id=..., fields=...); id None is the empty text
RecordSchema(id, fields) == [id |-> id, fields |-> fields]
UpsertBodies ==
    {Body(<<>>, recs, <<KeyStatus>>) :
        recs \in {<<>>, <<RecordSchema(<<>>, FieldsF)>>,
                  <<RecordSchema(IdR1, FieldsF), RecordSchema(<<>>, FieldsF)>>}}

OrderIdValues == {<<"A", "1">>, <<"O", "'", "1">>}

HandlerInputs ==
    {Input("read_airtable_records", TableT, <<>>, NoBody),
     Input("get_airtable_record_by_id", TableT, IdR1, NoBody),
     Input("create_airtable_record", TableT, <<>>, Body(FieldsF, <<>>, <<>>)),
     Input("update_airtable_record", TableT, IdR1, Body(FieldsF, <<>>, <<>>)),
     Input("delete_airtable_record", TableT, IdR1, NoBody)}
    \cup {Input(h, TableT, <<>>, Body(f, <<>>, <<>>)) :
            h \in {"search_airtable_record_route", "search_airtable_records"},
            f \in SmallFilters}
    \cup {Input("upsert_airtable_records", TableT, <<>>, b) : b \in UpsertBodies}
    \cup {Input("get_detailed_order_by_order_id", <<>>, v, NoBody) : v \in OrderIdValues}
    \cup {Input("get_filtered_orders_list", <<>>, <<>>, Body(f, <<>>, <<>>)) :
            f \in SmallFilters}

Init ==
    /\ cin = <<>>
    /\ cout = [e \in Endpoints |-> NotRun]
    /\ env_ok \in BOOLEAN
    /\ settings_cache = 0
    /\ api_cache = 0
    /\ settings_created = 0
    /\ api_created = 0
    /\ req = [t \in 1..MaxThreads |-> IdleReq]
    /\ din = NoRec
    /\ dout = NoDenorm

\* A handler is called with a request's parameters: its dependencies are
\* resolved first.
Invoke(t) ==
    /\ req[t].pc = "idle"
    /\ \E i \in HandlerInputs :
           Step(t, [IdleReq EXCEPT !.pc = "dep_api", !.input = i])
    /\ UNCHANGED <<cin, cout, env_ok, settings_cache, api_cache, settings_created,
                   api_created, din, dout>>

Next ==
    \/ Invoke(1)
    \/ Resolve(1)
    \/ RunReadRecords(1)
    \/ RunGetRecord(1)
    \/ RunCreate(1)
    \/ RunUpdate(1)
    \/ RunDelete(1)
    \/ RunSearchFirst(1)
    \/ RunSearchAll(1)
    \/ RunUpsert(1)
    \/ RunOrderDetails(1)
    \/ RunOrdersList(1)
    \/ Release(1)

Spec == Init /\ [][Next]_vars

\* ------------------------------------------------------------------ fetch_order_details alone
\* The ids c1, c2, ... and g1, g2, ...
LinkIds(prefix, n) == [i \in 1..n |-> <<prefix, Digit(i)>>]

\* What a link field of an order may hold: nothing (the key is absent), null,
\* a text, or a list of up to MaxLinks ids.
LinkValues(prefix) ==
    {NoneV, StrV(<<prefix, "1">>)} \cup {ListV(LinkIds(prefix, n)) : n \in 0..MaxLinks}

\* Order records with each link field absent or holding one of its values, and
\* the other fields before or after the links.
OrderInputs ==
    LET Links(k, vs) == {<<>>} \cup {<< <<k, v>> >> : v \in vs}
    IN  {Rec(<<"o", "1">>, pre \o c \o g \o post) :
            pre \in {<<>>, << <<KeyStatus, Open>> >>},
            c \in Links(KeyCustomerID, LinkValues("c")),
            g \in Links(KeyGarments, LinkValues("g")),
            post \in {<<>>, << <<KeyA, IntV(1)>> >>}}

InitDenorm ==
    /\ cin = <<>>
    /\ cout = [e \in Endpoints |-> NotRun]
    /\ env_ok = TRUE
    /\ settings_cache = 0
    /\ api_cache = 0
    /\ settings_created = 0
    /\ api_created = 0
    /\ req = [t \in 1..MaxThreads |-> IdleReq]
    /\ din \in OrderInputs
    /\ dout = NoDenorm

\* fetch_order_details(din, api, settings) runs to its return or its raise.
Denormalize ==
    /\ ~dout.done
    /\ \E o \in FetchOrderDetails(din) :
           dout' = [done |-> TRUE, exc |-> o.exc, log |-> o.log,
                    final_data |-> o.final_data, input_fields |-> o.input_fields]
    /\ UNCHANGED <<cin, cout, env_ok, settings_cache, api_cache, settings_created,
                   api_created, req, din>>

NextDenorm == Denormalize

SpecDenorm == InitDenorm /\ [][NextDenorm]_vars

\* ------------------------------------------------------------------ concurrent requests
ReadInput == Input("read_airtable_records", TableT, <<>>, NoBody)

\* A request for GET /airtable/T/records reaches worker thread t.
InvokeRead(t) ==
    /\ req[t].pc = "idle"
    /\ Step(t, [IdleReq EXCEPT !.pc = "dep_api", !.input = ReadInput])
    /\ UNCHANGED <<cin, cout, env_ok, settings_cache, api_cache, settings_created,
                   api_created, din, dout>>

NextConc ==
    \E t \in 1..MaxThreads :
        \/ InvokeRead(t)
        \/ Resolve(t)
        \/ RunReadRecords(t)
        \/ Release(t)

SpecConc == Init /\ [][NextConc]_vars

\* ------------------------------------------------------------------ the application's routes
SegAirtable == <<"a", "i", "r", "t", "a", "b", "l", "e">>
SegRecords == <<"r", "e", "c", "o", "r", "d", "s">>
SegSearch == <<"s", "e", "a", "r", "c", "h">>
SegSearchAll == <<"s", "e", "a", "r", "c", "h", "-", "a", "l", "l">>
SegUpsert == <<"u", "p", "s", "e", "r", "t">>
SegOrderDetails == <<"o", "r", "d", "e", "r", "_", "d", "e", "t", "a", "i", "l", "s">>
SegOrdersList == <<"o", "r", "d", "e", "r", "s", "_", "l", "i", "s", "t">>

\* A segment of a route's path: literal text, or a path parameter.
Lit(seg) == [param |-> "", lit |-> seg]
Param(name) == [param |-> name, lit |-> <<>>]
Route(method, pattern, handler) == [method |-> method, pattern |-> pattern, handler |-> handler]

\* router = APIRouter(prefix="/airtable") of routers/airtable.py and its routes,
\* in the order they are declared.
AirtableRoutes ==
    <<Route("GET", <<Lit(SegAirtable), Param("table_name"), Lit(SegRecords)>>,
            "read_airtable_records"),
      Route("GET", <<Lit(SegAirtable), Param("table_name"), Lit(SegRecords), Param("record_id")>>,
            "get_airtable_record_by_id"),
      Route("POST", <<Lit(SegAirtable), Param("table_name"), Lit(SegRecords)>>,
            "create_airtable_record"),
      Route("PATCH", <<Lit(SegAirtable), Param("table_name"), Lit(SegRecords), Param("record_id")>>,
            "update_airtable_record"),
      Route("DELETE", <<Lit(SegAirtable), Param("table_name"), Lit(SegRecords), Param("record_id")>>,
            "delete_airtable_record"),
      Route("POST", <<Lit(SegAirtable), Param("table_name"), Lit(SegSearch)>>,
            "search_airtable_record_route"),
      Route("POST", <<Lit(SegAirtable), Param("table_name"), Lit(SegSearchAll)>>,
            "search_airtable_records"),
      Route("POST", <<Lit(SegAirtable), Param("table_name"), Lit(SegUpsert)>>,
            "upsert_airtable_records")>>

\* router = APIRouter(prefix="/airtable") of routers/orders.py and its routes.
OrdersRoutes ==
    <<Route("GET", <<Lit(SegAirtable), Lit(SegOrderDetails), Param("order_id_value")>>,
            "get_detailed_order_by_order_id"),
      Route("POST", <<Lit(SegAirtable), Lit(SegOrdersList)>>, "get_filtered_orders_list")>>

\* main.py: @app.get("/") and then app.include_router(airtable.router); no
\* other router is included.
AppRoutes == <<Route("GET", <<>>, "read_root")>> \o AirtableRoutes

\* Starlette's path match: as many segments, literals equal, a parameter
\* taking any non-empty segment.
PathMatches(path, pattern) ==
    /\ Len(path) = Len(pattern)
    /\ \A i \in 1..Len(path) :
           IF pattern[i].param = "" THEN pattern[i].lit = path[i] ELSE Len(path[i]) > 0

FullMatches(method, path) ==
    {k \in 1..Len(AppRoutes) :
        AppRoutes[k].method = method /\ PathMatches(path, AppRoutes[k].pattern)}
PartialMatches(path) ==
    {k \in 1..Len(AppRoutes) : PathMatches(path, AppRoutes[k].pattern)}

Least(S) == CHOOSE k \in S : \A j \in S : k <= j

\* The value of path parameter name, or the empty text.
PathParam(path, pattern, name) ==
    IF \E i \in 1..Len(pattern) : pattern[i].param = name
    THEN path[CHOOSE i \in 1..Len(pattern) : pattern[i].param = name]
    ELSE <<>>

HttpRequest(method, path, body) == [method |-> method, path |-> path, body |-> body]

\* Requests sent to the application: one for each documented path, and some
\* to paths or with methods that are not documented.
HttpRequests ==
    {HttpRequest("GET", <<>>, NoBody),
     HttpRequest("GET", <<SegAirtable, TableT, SegRecords>>, NoBody),
     HttpRequest("GET", <<SegAirtable, TableT, SegRecords, IdR1>>, NoBody),
     HttpRequest("POST", <<SegAirtable, TableT, SegRecords>>, Body(FieldsF, <<>>, <<>>)),
     HttpRequest("PATCH", <<SegAirtable, TableT, SegRecords, IdR1>>, Body(FieldsF, <<>>, <<>>)),
     HttpRequest("DELETE", <<SegAirtable, TableT, SegRecords, IdR1>>, NoBody),
     HttpRequest("POST", <<SegAirtable, TableT, SegSearch>>,
                 Body(<< <<KeyA, IntV(1)>> >>, <<>>, <<>>)),
     HttpRequest("POST", <<SegAirtable, TableT, SegSearchAll>>,
                 Body(<< <<KeyA, IntV(1)>> >>, <<>>, <<>>)),
     HttpRequest("POST", <<SegAirtable, TableT, SegUpsert>>,
                 Body(<<>>, <<RecordSchema(<<>>, FieldsF)>>, <<KeyStatus>>)),
     HttpRequest("GET", <<SegAirtable, SegOrderDetails, <<"A", "1">> >>, NoBody),
     HttpRequest("POST", <<SegAirtable, SegOrdersList>>, NoBody),
     HttpRequest("GET", <<SegAirtable, SegOrderDetails, SegRecords>>, NoBody),
     HttpRequest("DELETE", <<SegAirtable, TableT, SegSearch>>, NoBody),
     HttpRequest("GET", <<SegAirtable>>, NoBody)}

\* A request reaches the application.
Receive(t) ==
    /\ req[t].pc = "idle"
    /\ \E q \in HttpRequests :
           Step(t, [IdleReq EXCEPT !.pc = "route", !.method = q.method,
                                   !.path = q.path, !.body = q.body])
    /\ UNCHANGED <<cin, cout, env_ok, settings_cache, api_cache, settings_created,
                   api_created, din, dout>>

\* The first route whose path and method match takes the request.
Dispatch(t) ==
    /\ req[t].pc = "route"
    /\ FullMatches(req[t].method, req[t].path) # {}
    /\ LET route == AppRoutes[Least(FullMatches(req[t].method, req[t].path))]
           P(name) == PathParam(req[t].path, route.pattern, name)
       IN  Step(t, [req[t] EXCEPT
                      !.pc = IF route.handler = "read_root" THEN "handler" ELSE "dep_api",
                      !.input = Input(route.handler, P("table_name"),
                                      P("record_id") \o P("order_id_value"), req[t].body)])
    /\ UNCHANGED <<cin, cout, env_ok, settings_cache, api_cache, settings_created,
                   api_created, din, dout>>

\* A path some route has, with a method no such route takes: 405.
MethodNotAllowed(t) ==
    /\ req[t].pc = "route"
    /\ FullMatches(req[t].method, req[t].path) = {}
    /\ PartialMatches(req[t].path) # {}
    /\ Step(t, [req[t] EXCEPT !.pc = "done", !.http = 405])
    /\ UNCHANGED <<cin, cout, env_ok, settings_cache, api_cache, settings_created,
                   api_created, din, dout>>

\* No route has the path: 404.
NotFound(t) ==
    /\ req[t].pc = "route"
    /\ PartialMatches(req[t].path) = {}
    /\ Step(t, [req[t] EXCEPT !.pc = "done", !.http = 404])
    /\ UNCHANGED <<cin, cout, env_ok, settings_cache, api_cache, settings_created,
                   api_created, din, dout>>

\* read_root of main.py
RunReadRoot(t) ==
    /\ req[t].pc = "handler"
    /\ req[t].input.handler = "read_root"
    /\ Step(t, [req[t] EXCEPT
                  !.pc = "done", !.http = 200,
                  !.response = ApiResponse("", "Hello from Team Autolinium, we are grinding",
                                           DataNone, 0)])
    /\ UNCHANGED <<cin, cout, env_ok, settings_cache, api_cache, settings_created,
                   api_created, din, dout>>

NextApp ==
    \/ Receive(1)
    \/ Dispatch(1)
    \/ MethodNotAllowed(1)
    \/ NotFound(1)
    \/ Resolve(1)
    \/ RunReadRoot(1)
    \/ RunReadRecords(1)
    \/ RunGetRecord(1)
    \/ RunCreate(1)
    \/ RunUpdate(1)
    \/ RunDelete(1)
    \/ RunSearchFirst(1)
    \/ RunSearchAll(1)
    \/ RunUpsert(1)
    \/ Release(1)

SpecApp == Init /\ [][NextApp]_vars

\* ------------------------------------------------------------------ claims on the handlers
Served(t) == req[t].pc = "done" /\ req[t].input.handler # ""
Filters(t) == req[t].input.body.fields
FilterHandlers == {"search_airtable_records", "get_filtered_orders_list"}
CallFailed(entry) == Len(entry.sends) > 0 /\ entry.sends[Len(entry.sends)] # "ok"

\* C1: with an empty filter map, search-all and orders_list compile no
\* predicate: once the table is built the first client call is an unfiltered
\* all(), and unless a client call fails the envelope says success.
C1_EmptyFilterFetchesUnfiltered ==
    (/\ Served(1)
     /\ req[1].input.handler \in FilterHandlers
     /\ Len(Filters(1)) = 0
     /\ req[1].response.data.exc # HTTPException)
    => /\ Len(req[1].log) >= 1
       /\ req[1].log[1].op = "all"
       /\ req[1].log[1].arg.formula.none
       /\ (\A i \in 1..Len(req[1].log) : ~CallFailed(req[1].log[i]))
              => req[1].response.status = "success"

\* C2: the formula /search hands to first() is the formula the filter
\* compilers of search-all and orders_list build from the same map.
C2_SearchUsesCompiler ==
    (/\ Served(1)
     /\ req[1].input.handler = "search_airtable_record_route"
     /\ Len(req[1].log) >= 1
     /\ Len(Filters(1)) >= 1)
    => /\ req[1].log[1].op = "first"
       /\ req[1].log[1].arg.formula = SearchAllFormula(Filters(1))
       /\ req[1].log[1].arg.formula = OrdersListFormula(Filters(1))

\* C4: whatever fails while a request is served, the request ends with the
\* envelope: status "error", count 0 and a message; no exception leaves the
\* handler or the resolution of its dependencies.
C4_EveryErrorEnveloped ==
    /\ req[1].pc # "escaped"
    /\ Served(1) =>
          /\ req[1].http = 200
          /\ req[1].response.status \in {"success", "error"}
          /\ req[1].response.status = "error" =>
                 req[1].response.count = 0 /\ req[1].response.message # ""

\* C6 as stated: no client call of a request sends more than one HTTP request.
C6_NothingRetried ==
    \A i \in 1..Len(req[1].log) : Len(req[1].log[i].sends) <= 1

\* C6 as amended: the handlers never retry.  A client call that fails is the
\* last call of its request and the request ends in an error envelope, and
\* the handlers of a single store operation make at most one call.  Inside a
\* call the client, built with retry_strategy=True, sends again only after a
\* 429.
C6_HandlersNeverRetry ==
    Served(1) =>
        /\ \A i \in 1..Len(req[1].log) :
              /\ CallFailed(req[1].log[i]) =>
                     i = Len(req[1].log) /\ req[1].response.status = "error"
              /\ \A j \in 1..(Len(req[1].log[i].sends) - 1) : req[1].log[i].sends[j] = "429"
        /\ req[1].input.handler \notin
               {"get_detailed_order_by_order_id", "get_filtered_orders_list"}
           => Len(req[1].log) <= 1

\* An update whose call failed after the client had re-sent it.
C6_Witness ==
    /\ Served(1)
    /\ req[1].input.handler = "update_airtable_record"
    /\ Len(req[1].log) = 1
    /\ req[1].log[1].sends = <<"429", "err">>
    /\ req[1].response.status = "error"

\* The first entry of a filter map whose value is no string, number or boolean.
FirstUnsupported(f) == CHOOSE i \in 1..Len(f) : ~Supported(f[i][2]) /\ \A j \in 1..(i - 1) : Supported(f[j][2])

\* C9: a filter value that is no string, number or boolean makes search-all
\* and orders_list end in an error envelope that names the offending key and
\* its type, with no client call made, wherever the entry sits.
C9_UnsupportedFilterRejected ==
    (/\ Served(1)
     /\ req[1].input.handler \in FilterHandlers
     /\ ~AllSupported(Filters(1)))
    => /\ req[1].response.status = "error"
       /\ req[1].response.count = 0
       /\ req[1].response.data.kind = "error"
       /\ req[1].response.data.exc.kind = "ValueError"
       /\ req[1].response.data.exc.key = Filters(1)[FirstUnsupported(Filters(1))][1]
       /\ req[1].response.data.exc.typ = Filters(1)[FirstUnsupported(Filters(1))][2].t
       /\ req[1].log = <<>>

\* orders_list has been served with {B: 1, A: null}, the offending entry last.
C9_Witness ==
    /\ Served(1)
    /\ req[1].input.handler = "get_filtered_orders_list"
    /\ Filters(1) = << <<KeyB, IntV(1)>>, <<KeyA, NoneV>> >>

\* C13: an upsert whose table is built and whose records list is empty ends in a
\* success envelope with count 0; every successful upsert reports as count the
\* number of records batch_upsert returned; and batch_upsert is called once
\* with one payload per request record, in order, with the record's fields and
\* with its id exactly when the record has one.
C13_UpsertCountsRecords ==
    (/\ Served(1)
     /\ req[1].input.handler = "upsert_airtable_records"
     /\ req[1].response.data.exc # HTTPException)
    =>  LET records == req[1].input.body.records
            log == req[1].log
        IN  /\ Len(log) = 1
            /\ log[1].op = "batch_upsert"
            /\ Len(log[1].arg.payload) = Len(records)
            /\ \A i \in 1..Len(records) :
                   /\ log[1].arg.payload[i].fields = records[i].fields
                   /\ log[1].arg.payload[i].has_id <=> Len(records[i].id) > 0
                   /\ log[1].arg.payload[i].id = records[i].id
            /\ Len(records) = 0 =>
                   /\ req[1].response.status = "success"
                   /\ req[1].response.count = 0
            /\ req[1].response.status = "success" =>
                   req[1].response.count = log[1].answer[3]

\* ------------------------------------------------------------------ claims on fetch_order_details
LinkKeys == {KeyCustomerID, KeyGarments}

\* C10: the output order keeps the id and createdTime of the input record; its
\* fields are the input's fields without CustomerID and GARMENTS, every other
\* key with its value and in its place; the input's own fields are unchanged.
C10_OrderStripped ==
    dout.done =>
        LET out == dout.final_data.order
        IN  /\ out.id = din.id
            /\ out.createdTime = din.createdTime
            /\ \A k \in LinkKeys : ~HasKey(out.fields, k)
            /\ \A i \in 1..Len(din.fields) :
                   din.fields[i][1] \notin LinkKeys =>
                       /\ HasKey(out.fields, din.fields[i][1])
                       /\ Lookup(out.fields, din.fields[i][1]) = din.fields[i][2]
            /\ \A i \in 1..Len(out.fields) : \E j \in 1..Len(din.fields) : out.fields[i] = din.fields[j]
            /\ Len(out.fields) = Cardinality({i \in 1..Len(din.fields) : din.fields[i][1] \notin LinkKeys})
            /\ dout.input_fields = din.fields

\* An order with both link fields and two other fields has gone through
\* fetch_order_details without an exception.
C10_Witness ==
    /\ dout.done
    /\ dout.exc = NoExc
    /\ HasKey(din.fields, KeyCustomerID)
    /\ HasKey(din.fields, KeyGarments)
    /\ HasKey(din.fields, KeyStatus)
    /\ HasKey(din.fields, KeyA)
    /\ Len(dout.final_data.order.fields) = 2

\* The value an input order holds under a link key, None when the key is absent.
LinkValue(k) == IF HasKey(din.fields, k) THEN Lookup(din.fields, k) ELSE NoneV
\* The client calls fetch_order_details made on a table, in order.
CallsOn(table) == SelectSeq(dout.log, LAMBDA e : e.table = table)
NonEmptyList(v) == IsList(v) /\ Len(v.l) > 0

\* C11: when CustomerID holds a non-empty list, fetch_order_details makes at
\* most one client call on CUSTOMERS, a get of the list's first id; it makes
\* none only when the table could not be built, and when it returns it has made
\* exactly one and customer is what the get returned (nothing returned: null).
\* When CustomerID is absent, empty or not a list there is no call on CUSTOMERS
\* and customer is null.
C11_SingleCustomerFetch ==
    dout.done =>
        LET v == LinkValue(KeyCustomerID)
            calls == CallsOn(CUSTOMER_TABLE_NAME)
        IN  IF NonEmptyList(v)
            THEN /\ Len(calls) <= 1
                 /\ \A i \in 1..Len(calls) :
                        /\ calls[i].op = "get"
                        /\ calls[i].arg = Arg(NoFormula, v.l[1], <<>>)
                 /\ Len(calls) = 0 => dout.exc = HTTPException
                 /\ dout.exc = NoExc =>
                        /\ Len(calls) = 1
                        /\ dout.final_data.customer = calls[1].answer
            ELSE /\ calls = <<>>
                 /\ dout.final_data.customer = <<>>

\* An order linking two customers has gone through fetch_order_details: one
\* get of the first id, whose record is the customer.
C11_Witness ==
    /\ dout.done
    /\ dout.exc = NoExc
    /\ LinkValue(KeyCustomerID) = ListV(<<IdC1, <<"c", "2">> >>)
    /\ Len(CallsOn(CUSTOMER_TABLE_NAME)) = 1
    /\ CallsOn(CUSTOMER_TABLE_NAME)[1].arg.id = IdC1
    /\ dout.final_data.customer = <<RecC1>>

\* RECORD_ID()='id1', RECORD_ID()='id2', ... for ids[i..], written out id by id.
RECURSIVE RecordIdTerms(_, _)
RecordIdTerms(ids, i) ==
    LET term == <<"R", "E", "C", "O", "R", "D", "_", "I", "D", "(", ")", "=", "'">>
                \o ids[i] \o <<"'">>
    IN  IF i = Len(ids) THEN term ELSE term \o <<",", " ">> \o RecordIdTerms(ids, i + 1)

\* C12: when GARMENTS holds a non-empty list of ids, fetch_order_details makes
\* at most one client call on GARMENTS, an all() whose formula is
\* OR(RECORD_ID()='id1', ..., RECORD_ID()='idn') over the ids in list order; it
\* makes none only when it raised before, and when it returns it has made
\* exactly one and garments is what the query returned.  When GARMENTS is
\* absent, empty or not a list there is no call on GARMENTS and garments is
\* the empty list.
C12_SingleGarmentQuery ==
    dout.done =>
        LET v == LinkValue(KeyGarments)
            calls == CallsOn(GARMENT_TABLE_NAME)
        IN  IF NonEmptyList(v)
            THEN /\ Len(calls) <= 1
                 /\ \A i \in 1..Len(calls) :
                        /\ calls[i].op = "all"
                        /\ calls[i].arg.formula
                             = Formula(<<"O", "R", "(">> \o RecordIdTerms(v.l, 1) \o <<")">>)
                        /\ calls[i].arg.id = <<>>
                        /\ calls[i].arg.payload = <<>>
                 /\ Len(calls) = 0 => dout.exc # NoExc
                 /\ dout.exc = NoExc =>
                        /\ Len(calls) = 1
                        /\ dout.final_data.garments = calls[1].answer
            ELSE /\ calls = <<>>
                 /\ dout.final_data.garments = <<>>

\* An order linking two garments has gone through fetch_order_details: one
\* query over both ids, whose two records are the garments.
C12_Witness ==
    /\ dout.done
    /\ dout.exc = NoExc
    /\ LinkValue(KeyGarments) = ListV(<<IdG1, IdG2>>)
    /\ Len(CallsOn(GARMENT_TABLE_NAME)) = 1
    /\ dout.final_data.garments = <<RecG1, RecG2>>

\* ------------------------------------------------------------------ claims on the memoized objects
Resolved(t) == req[t].pc \in {"handler", "done"} /\ req[t].input.handler # ""

\* C5: the settings and the client are each constructed at most once, and all
\* requests whose dependencies are resolved hold the same two objects.
C5_CreatedOnce ==
    /\ settings_created <= 1
    /\ api_created <= 1
    /\ \A t, u \in 1..MaxThreads :
           (Resolved(t) /\ Resolved(u)) =>
               req[t].api = req[u].api /\ req[t].settings = req[u].settings

\* ------------------------------------------------------------------ claims on the routes
\* The HTTP surface as documented: method, path and the handler serving it.
DocumentedSurface == {AirtableRoutes[i] : i \in 1..Len(AirtableRoutes)}
                     \cup {OrdersRoutes[i] : i \in 1..Len(OrdersRoutes)}

Documented(method, path) ==
    {d \in DocumentedSurface : d.method = method /\ PathMatches(path, d.pattern)}

\* C3: a request to a documented method and path is dispatched to a handler
\* documented for it.
C3_DocumentedRoutesDispatch ==
    (req[1].pc \notin {"idle", "route"} /\ Documented(req[1].method, req[1].path) # {})
    => /\ req[1].http \notin {404, 405}
       /\ \E d \in Documented(req[1].method, req[1].path) : d.handler = req[1].input.handler

====
